---- MODULE Spec2Model ----
(***************************************************************************)
(* Model of ButtonPaginator/paginator.py: the Paginator class.             *)
(*                                                                         *)
(*   __init__       -> Construct, ConstructRaises                          *)
(*   start          -> Start, StartRaises, Tick, WaitForComponent,         *)
(*                     DispatchUnheard, EditOrigin, TimeoutError           *)
(*   button_check   -> button_check, CheckRejects, NoticeTask              *)
(*   _make_buttons  -> _make_buttons                                       *)
(*                                                                         *)
(* The awaits of start() are the suspension points of the coroutine, so    *)
(* start() is cut there: pc is the await the coroutine is parked on        *)
(* ("wait": wait_for_component, "edit": ctx.edit_origin).  The header      *)
(* string and the button styles are fixed once constructed and are left    *)
(* out of the rendered view.                                               *)
(***************************************************************************)
EXTENDS Integers, Sequences, FiniteSets, TLC

(* ---------------------------- bounds ---------------------------------- *)
MaxPages == 3       \* longest contents / embeds list the caller passes
MaxButtons == 3     \* longest basic_buttons / extended_buttons list passed
MaxTimeout == 1     \* largest timeout argument (seconds)
MaxStarts == 2      \* start() is invoked at most this many times
MaxTasks == 1       \* notice tasks scheduled and not yet run
MaxClock == MaxTimeout + 1   \* the clock is observed one second past it

None == "None"          \* None, where the other values are strings
NoMessage == 0          \* self._message = None; message ids start at 1
Users == {"author", "other"}
\* custom ids of the five buttons built by _make_buttons, and a foreign one
CustomIds == {"_extend_left_click", "_left_click", "_show_page",
              "_right_click", "_extend_right_click", "_unknown"}
Styles == {"green", "URL"}

VARIABLES
    pc,                   \* where the caller / the start() coroutine is
    error,                \* the exception the last step raised, or None
    event,                \* <<ctx>>: the interaction the last step passed to
                          \* button_check; <<>> if the last step was not one
    unheard,              \* <<ctx>>: the interaction the last step dispatched
                          \* while no wait was pending; <<>> otherwise
    args,                 \* <<a>>: the arguments the last step passed to
                          \* __init__; <<>> if the last step was not __init__
    contents, embeds,     \* self.contents, self.embeds
    timeout,              \* self.timeout
    use_extend, only,     \* self.use_extend, self.only
    basic_buttons,        \* self.basic_buttons
    extended_buttons,     \* self.extended_buttons
    delete_after_timeout, \* self.delete_after_timeout
    page,                 \* self.page
    message,              \* self._message (the id of the message), or NoMessage
    rendered,             \* <<what self._message shows>>, <<>> before the send
    shown,                \* self.page when that view was built, 0 before
    sent,                 \* messages created by context.send so far
    deleted,              \* ids passed to message.delete(), in order
    waited,               \* seconds the pending wait_for_component has waited
    tasks                 \* notice tasks created by button_check, not yet run

config == <<contents, embeds, timeout, use_extend, only, basic_buttons,
            extended_buttons, delete_after_timeout>>
vars == <<pc, error, event, unheard, args, contents, embeds, timeout, use_extend, only,
          basic_buttons, extended_buttons, delete_after_timeout, page,
          message, rendered, shown, sent, deleted, waited, tasks>>

(* ------------------------- python helpers ----------------------------- *)
\* An optional list argument is <<>> for None and <<l>> for the list l.
NoList == <<>>
Some(l) == <<l>>
\* the i-th page item of a caller-supplied list: a text or an embed
List(n, tag) == [i \in 1..n |-> <<tag, i>>]
\* [x] * n
Repeat(x, n) == [i \in 1..n |-> x]
EmptyStr == <<"", 0>>          \* the str '' as a page item
NoEmbed == <<"None", 0>>       \* the embed None as a page item
\* `arg or default` for an optional list: None and [] are falsy
ArgOr(o, default) == IF o # NoList /\ o[1] # <<>> THEN o[1] ELSE default
\* `a or b` for two lists
Or(a, b) == IF a # <<>> THEN a ELSE b

\* str(n) for a natural number: its decimal digits
Digit(d) == CASE d = 0 -> "0" [] d = 1 -> "1" [] d = 2 -> "2" [] d = 3 -> "3"
              [] d = 4 -> "4" [] d = 5 -> "5" [] d = 6 -> "6" [] d = 7 -> "7"
              [] d = 8 -> "8" [] d = 9 -> "9"
RECURSIVE str(_)
str(n) == IF n < 10 THEN <<Digit(n)>> ELSE str(n \div 10) \o <<Digit(n % 10)>>

\* l[i] with Python's indexing (0-based, negative from the end): is it in range
PyIndexOk(l, i) == -Len(l) <= i /\ i < Len(l)
PyGet(l, i) == IF i >= 0 THEN l[i + 1] ELSE l[Len(l) + i + 1]

(* ---------------------------- __init__ -------------------------------- *)
\* Glyphs are numbered: 1, 2 are the arrows of the default basic_buttons,
\* 3, 4 the double arrows of the default extended_buttons.
DefaultBasic == <<1, 2>>
DefaultExtended == <<3, 4>>
\* a caller-supplied list of n glyphs: the default one cut or extended to n
Glyphs(default, n) == [i \in 1..n |-> IF i <= 2 THEN default[i] ELSE 4 + i]

\* the argument values a caller may pass
ListArgs(tag) == {NoList} \cup {Some(List(n, tag)) : n \in 0..MaxPages}
ButtonArgs(default) == {NoList} \cup {Some(Glyphs(default, n)) : n \in 0..MaxButtons}
\* a timeout of some seconds, passed as an int or as another type (a float)
TimeoutArgs == [int : BOOLEAN, seconds : 1..MaxTimeout]
CtorArgs == [bot : BOOLEAN,       \* is bot an instance of a discord client class
             contents : ListArgs("text"), embeds : ListArgs("embed"),
             timeout : TimeoutArgs, use_extend : BOOLEAN,
             only : {None, "author"},
             basic_buttons : ButtonArgs(DefaultBasic),
             extended_buttons : ButtonArgs(DefaultExtended),
             left_button_style : Styles, right_button_style : Styles,
             delete_after_timeout : BOOLEAN]

\* the exception __init__ raises for these arguments, or None
CtorError(a) ==
    LET bb == ArgOr(a.basic_buttons, DefaultBasic)
        eb == ArgOr(a.extended_buttons, DefaultExtended)
    IN  CASE ~PyIndexOk(bb, 0) \/ ~PyIndexOk(bb, 1) -> "IndexError"
          [] ~PyIndexOk(eb, 0) \/ ~PyIndexOk(eb, 1) -> "IndexError"
          [] ~a.bot -> "TypeError"
          [] a.contents = NoList /\ a.embeds = NoList -> "MissingAttributeException"
          [] a.contents # NoList /\ a.embeds # NoList
               /\ Len(a.contents[1]) # Len(a.embeds[1]) -> "InvaildArgumentException"
          [] ~a.timeout.int -> "TypeError"
          [] Len(bb) # 2 -> "InvaildArgumentException"
          [] a.extended_buttons # NoList /\ Len(eb) # 2 -> "InvaildArgumentException"
          [] a.left_button_style = "URL" \/ a.right_button_style = "URL" -> "TypeError"
          [] OTHER -> None

\* self.contents and self.embeds once __init__ has returned
CtorContents(a) ==
    IF a.contents # NoList THEN a.contents[1]
    ELSE Repeat(EmptyStr, Len(a.embeds[1]))
CtorEmbeds(a) ==
    IF a.embeds # NoList THEN a.embeds[1]
    ELSE Repeat(NoEmbed, Len(a.contents[1]))

Init ==
    /\ pc = "new" /\ error = None /\ event = <<>>
    /\ unheard = <<>> /\ args = <<>>
    /\ contents = <<>> /\ embeds = <<>> /\ timeout = 0
    /\ use_extend = FALSE /\ only = None
    /\ basic_buttons = <<>> /\ extended_buttons = <<>>
    /\ delete_after_timeout = FALSE
    /\ page = 0 /\ message = NoMessage /\ rendered = <<>> /\ shown = 0
    /\ sent = 0 /\ deleted = <<>> /\ waited = 0 /\ tasks = <<>>

Construct ==
    /\ pc = "new"
    /\ \E a \in CtorArgs :
        /\ CtorError(a) = None
        /\ contents' = CtorContents(a)
        /\ embeds' = CtorEmbeds(a)
        /\ timeout' = a.timeout.seconds
        /\ use_extend' = a.use_extend
        /\ only' = a.only
        /\ basic_buttons' = ArgOr(a.basic_buttons, DefaultBasic)
        /\ extended_buttons' = ArgOr(a.extended_buttons, DefaultExtended)
        /\ delete_after_timeout' = a.delete_after_timeout
        /\ args' = <<a>>
    /\ page' = 1
    /\ pc' = "constructed"
    /\ UNCHANGED <<error, event, unheard, message, rendered, shown, sent, deleted, waited, tasks>>

\* __init__ raises: no Paginator exists
ConstructRaises ==
    /\ pc = "new"
    /\ \E a \in CtorArgs :
        /\ CtorError(a) # None
        /\ error' = CtorError(a)
        /\ args' = <<a>>
    /\ pc' = "ctor_raised"
    /\ UNCHANGED <<event, unheard, config, page, message, rendered, shown, sent, deleted, waited, tasks>>

(* -------------------------- _make_buttons ----------------------------- *)
create_button(style, label, custom_id, disabled) ==
    [style |-> style, label |-> label, custom_id |-> custom_id,
     disabled |-> disabled]

\* f"Page {str(self.page)} / {str(len(self.embeds or self.contents))}"
PageLabel(p, n) == <<"P", "a", "g", "e", " ">> \o str(p) \o <<" ", "/", " ">> \o str(n)

\* _make_buttons with right_disable taken one page early
_make_buttons_early_disable(p) ==
    LET total == Len(Or(embeds, contents))
        left_disable == p = 1
        right_disable == p >= total - 1
        buttons == << create_button("left_style", basic_buttons[1],
                                    "_left_click", left_disable),
                      create_button("gray", PageLabel(p, total),
                                    "_show_page", TRUE),
                      create_button("right_style", basic_buttons[2],
                                    "_right_click", right_disable) >>
    IN  IF use_extend
        THEN << create_button("left_style", extended_buttons[1],
                              "_extend_left_click", left_disable) >>
             \o buttons \o
             << create_button("right_style", extended_buttons[2],
                              "_extend_right_click", right_disable) >>
        ELSE buttons

\* _make_buttons that appends the jump-to-first button instead of inserting
\* it at index 0
_make_buttons_append_first(p) ==
    LET total == Len(Or(embeds, contents))
        left_disable == p = 1
        right_disable == p = total
        buttons == << create_button("left_style", basic_buttons[1],
                                    "_left_click", left_disable),
                      create_button("gray", PageLabel(p, total),
                                    "_show_page", TRUE),
                      create_button("right_style", basic_buttons[2],
                                    "_right_click", right_disable) >>
    IN  IF use_extend
        THEN buttons \o
             << create_button("left_style", extended_buttons[1],
                              "_extend_left_click", left_disable),
                create_button("right_style", extended_buttons[2],
                              "_extend_right_click", right_disable) >>
        ELSE buttons

_make_buttons(p) ==
    LET total == Len(Or(embeds, contents))
        left_disable == p = 1
        right_disable == p = total
        buttons == << create_button("left_style", basic_buttons[1],
                                    "_left_click", left_disable),
                      create_button("gray", PageLabel(p, total),
                                    "_show_page", TRUE),
                      create_button("right_style", basic_buttons[2],
                                    "_right_click", right_disable) >>
    IN  IF use_extend
        THEN << create_button("left_style", extended_buttons[1],
                              "_extend_left_click", left_disable) >>
             \o buttons \o
             << create_button("right_style", extended_buttons[2],
                              "_extend_right_click", right_disable) >>
        ELSE buttons

\* the keyword arguments of context.send / ctx.edit_origin for page p
Payload(p) ==
    [content |-> PyGet(contents, p - 1), embed |-> PyGet(embeds, p - 1),
     components |-> _make_buttons(p)]
PayloadOk(p) == PyIndexOk(contents, p - 1) /\ PyIndexOk(embeds, p - 1)

(* --------------------------- button_check ----------------------------- *)
\* the ComponentContext of an interaction: on the message start() sent, or
\* on the one sent just before it (by an earlier run, or by someone else)
Contexts == [origin_message_id : {message - 1, message}, author_id : Users,
             custom_id : CustomIds]

\* button_check whose author test schedules the notice and falls through
\* to `return True`
button_check_fall_through(ctx) ==
    IF ctx.origin_message_id # message
    THEN [result |-> FALSE, notice |-> FALSE]
    ELSE IF only # None /\ ctx.author_id # only
         THEN [result |-> TRUE, notice |-> TRUE]
         ELSE [result |-> TRUE, notice |-> FALSE]

\* button_check without the test of ctx.origin_message_id
button_check_any_message(ctx) ==
    IF only # None /\ ctx.author_id # only
    THEN [result |-> FALSE, notice |-> TRUE]
    ELSE [result |-> TRUE, notice |-> FALSE]

\* what button_check(ctx) returns, and whether it scheduled the notice task
button_check(ctx) ==
    IF ctx.origin_message_id # message
    THEN [result |-> FALSE, notice |-> FALSE]
    ELSE IF only # None /\ ctx.author_id # only
         THEN [result |-> FALSE, notice |-> TRUE]
         ELSE [result |-> TRUE, notice |-> FALSE]

(* ------------------------------ start --------------------------------- *)
\* the timeout start() passes to wait_for_component: the keyword is not
\* passed, and the parameter's default is None (wait without a deadline)
NoTimeout == 0
wait_timeout == NoTimeout

\* the if / elif chain with `self.page += 1` for the right button
NextPage_unguarded_right(custom_id, p) ==
    CASE custom_id = "_extend_left_click" -> 1
      [] custom_id = "_left_click" -> IF p - 1 # 0 THEN p - 1 ELSE 1
      [] custom_id = "_right_click" -> p + 1
      [] custom_id = "_extend_right_click" -> Len(embeds)
      [] OTHER -> p

\* the if / elif chain with `self.page -= 1` for the left button
NextPage_unguarded_left(custom_id, p) ==
    CASE custom_id = "_extend_left_click" -> 1
      [] custom_id = "_left_click" -> p - 1
      [] custom_id = "_right_click" -> p + (IF p # Len(embeds) THEN 1 ELSE 0)
      [] custom_id = "_extend_right_click" -> Len(embeds)
      [] OTHER -> p

\* the if / elif chain with a branch for the label's custom id
NextPage_label_matched(custom_id, p) ==
    CASE custom_id = "_extend_left_click" -> 1
      [] custom_id = "_left_click" -> IF p - 1 # 0 THEN p - 1 ELSE 1
      [] custom_id = "_right_click" -> p + (IF p # Len(embeds) THEN 1 ELSE 0)
      [] custom_id = "_extend_right_click" -> Len(embeds)
      [] custom_id = "_show_page" -> 1
      [] OTHER -> p

\* the page after the if / elif chain on ctx.custom_id
NextPage(custom_id, p) ==
    CASE custom_id = "_extend_left_click" -> 1
      [] custom_id = "_left_click" -> IF p - 1 # 0 THEN p - 1 ELSE 1
      [] custom_id = "_right_click" -> p + (IF p # Len(embeds) THEN 1 ELSE 0)
      [] custom_id = "_extend_right_click" -> Len(embeds)
      [] OTHER -> p

\* start() is called, builds the first view and sends it
Start ==
    /\ pc \in {"constructed", "done"}
    /\ sent < MaxStarts
    /\ PayloadOk(page)
    /\ sent' = sent + 1
    /\ message' = sent + 1
    /\ rendered' = <<Payload(page)>>
    /\ shown' = page
    /\ waited' = 0
    /\ pc' = "wait"
    /\ error' = None /\ event' = <<>> /\ unheard' = <<>> /\ args' = <<>>
    /\ UNCHANGED <<config, page, deleted, tasks>>

\* start() is called and indexing the page lists raises: nothing is sent
StartRaises ==
    /\ pc \in {"constructed", "done"}
    /\ ~PayloadOk(page)
    /\ error' = "IndexError"
    /\ pc' = "raised"
    /\ event' = <<>> /\ unheard' = <<>> /\ args' = <<>>
    /\ UNCHANGED <<config, page, message, rendered, shown, sent, deleted, waited, tasks>>

\* a second passes while start() is parked on wait_for_component
Tick ==
    /\ pc = "wait"
    /\ wait_timeout = NoTimeout \/ waited < wait_timeout
    /\ waited < MaxClock
    /\ waited' = waited + 1
    /\ error' = None /\ event' = <<>> /\ unheard' = <<>>
    /\ UNCHANGED <<args, pc, config, page, message, rendered, shown, sent, deleted, tasks>>

\* an interaction arrives and button_check accepts it: wait_for_component
\* returns it and the page is updated; start() is then parked on edit_origin
WaitForComponent ==
    /\ pc = "wait"
    /\ \E ctx \in Contexts :
        /\ button_check(ctx).result
        /\ page' = NextPage(ctx.custom_id, page)
        /\ event' = <<ctx>>
    /\ pc' = "edit"
    /\ error' = None /\ unheard' = <<>>
    /\ UNCHANGED <<args, config, message, rendered, shown, sent, deleted, waited, tasks>>

\* an interaction arrives and button_check returns False: the wait goes on
CheckRejects ==
    /\ pc = "wait"
    /\ \E ctx \in Contexts :
        /\ ~button_check(ctx).result
        /\ IF button_check(ctx).notice
           THEN /\ Len(tasks) < MaxTasks
                /\ tasks' = Append(tasks, ctx.author_id)
           ELSE tasks' = tasks
        /\ event' = <<ctx>>
    /\ error' = None /\ unheard' = <<>>
    /\ UNCHANGED <<args, pc, config, page, message, rendered, shown, sent, deleted, waited>>

\* an interaction that is dispatched while start() is parked on edit_origin
\* and is handled there as if a wait were pending
DispatchUnheard_applied ==
    /\ pc = "edit"
    /\ unheard = <<>>
    /\ \E ctx \in Contexts :
        /\ unheard' = <<ctx>>
        /\ page' = IF button_check(ctx).result
                   THEN NextPage(ctx.custom_id, page) ELSE page
    /\ error' = None /\ event' = <<>>
    /\ UNCHANGED <<args, pc, config, message, rendered, shown, sent, deleted,
                   waited, tasks>>

\* an interaction is dispatched while start() is parked on edit_origin: the
\* wait of the previous cycle has returned and the next wait_for_component
\* call is not made yet, so button_check is not called and nothing keeps it
\* (a further dispatch right after one reaches no other program state: it
\* is the same step, taken from the state before the first)
DispatchUnheard ==
    /\ pc = "edit"
    /\ unheard = <<>>
    /\ \E ctx \in Contexts : unheard' = <<ctx>>
    /\ error' = None /\ event' = <<>>
    /\ UNCHANGED <<args, pc, config, page, message, rendered, shown, sent,
                   deleted, waited, tasks>>

\* a notice task that sets self.page
NoticeTask_writes_page ==
    /\ tasks # <<>>
    /\ tasks' = Tail(tasks)
    /\ page' = 1
    /\ error' = None /\ event' = <<>> /\ unheard' = <<>>
    /\ UNCHANGED <<args, pc, config, message, rendered, shown, sent, deleted, waited>>

\* the event loop runs a scheduled ctx.send(..., hidden=True)
NoticeTask ==
    /\ tasks # <<>>
    /\ tasks' = Tail(tasks)
    /\ error' = None /\ event' = <<>> /\ unheard' = <<>>
    /\ UNCHANGED <<args, pc, config, page, message, rendered, shown, sent, deleted, waited>>

\* a loop that is left once the edit has completed
EditOrigin_returns ==
    /\ pc = "edit"
    /\ PayloadOk(page)
    /\ rendered' = <<Payload(page)>>
    /\ shown' = page
    /\ waited' = 0
    /\ pc' = "done"
    /\ error' = None /\ event' = <<>> /\ unheard' = <<>>
    /\ UNCHANGED <<args, config, page, message, sent, deleted, tasks>>

\* a re-render that sends a new message instead of editing the old one
EditOrigin_sends_new ==
    /\ pc = "edit"
    /\ PayloadOk(page)
    /\ sent <= MaxStarts
    /\ sent' = sent + 1
    /\ message' = sent + 1
    /\ rendered' = <<Payload(page)>>
    /\ shown' = page
    /\ waited' = 0
    /\ pc' = "wait"
    /\ error' = None /\ event' = <<>> /\ unheard' = <<>>
    /\ UNCHANGED <<args, config, page, deleted, tasks>>

\* ctx.edit_origin completes: the message shows the current page
EditOrigin ==
    /\ pc = "edit"
    /\ PayloadOk(page)
    /\ rendered' = <<Payload(page)>>
    /\ shown' = page
    /\ waited' = 0
    /\ pc' = "wait"
    /\ error' = None /\ event' = <<>> /\ unheard' = <<>>
    /\ UNCHANGED <<args, config, page, message, sent, deleted, tasks>>

\* an except clause that returns whether or not it deletes the message
TimeoutError_always_returns ==
    /\ pc \in {"wait", "edit"}
    /\ error' = "TimeoutError"
    /\ event' = <<>> /\ unheard' = <<>> /\ args' = args
    /\ deleted' = IF delete_after_timeout THEN Append(deleted, message) ELSE deleted
    /\ pc' = "done"
    /\ UNCHANGED <<config, page, message, rendered, shown, sent, waited, tasks>>

\* an except clause that deletes the message and goes round the loop
TimeoutError_no_return ==
    /\ pc \in {"wait", "edit"}
    /\ error' = "TimeoutError"
    /\ event' = <<>> /\ unheard' = <<>> /\ args' = args
    /\ deleted' = IF delete_after_timeout THEN Append(deleted, message) ELSE deleted
    /\ Len(deleted') <= MaxStarts + 1
    /\ pc' = "wait"
    /\ waited' = 0
    /\ UNCHANGED <<config, page, message, rendered, shown, sent, tasks>>

\* an await of the try body raises asyncio.TimeoutError, which the except
\* clause catches: delete the message and return, or go round the loop
TimeoutError ==
    /\ pc \in {"wait", "edit"}
    /\ error' = "TimeoutError"
    /\ event' = <<>> /\ unheard' = <<>> /\ args' = args
    /\ IF delete_after_timeout
       THEN /\ deleted' = Append(deleted, message)
            /\ pc' = "done"
            /\ waited' = waited
       ELSE /\ deleted' = deleted
            /\ pc' = "wait"
            /\ waited' = 0
    /\ UNCHANGED <<config, page, message, rendered, shown, sent, tasks>>

Next ==
    \/ Construct
    \/ ConstructRaises
    \/ Start
    \/ StartRaises
    \/ Tick
    \/ WaitForComponent
    \/ CheckRejects
    \/ DispatchUnheard
    \/ NoticeTask
    \/ EditOrigin
    \/ TimeoutError

Spec == Init /\ [][Next]_vars

(* ----------------------------- claims --------------------------------- *)
Range(f) == {f[i] : i \in DOMAIN f}
Min(a, b) == IF a <= b THEN a ELSE b
Max(a, b) == IF a >= b THEN a ELSE b
\* N, the number of pages of a constructed Paginator
N == Len(contents)
Constructed == pc \notin {"new", "ctor_raised"}
\* the step delivers an interaction to the pending wait
Delivered == pc = "wait" /\ event' # <<>>
OnMessage(ctx) == ctx.origin_message_id = message
Authorized(ctx) == only = None \/ ctx.author_id = only
\* the step renders: the first send, or an edit that completes
Renders == sent' # sent \/ (pc = "edit" /\ pc' = "wait" /\ error' = None)
\* the decimal numeral of a page number below ten
Numeral(n) == CASE n = 0 -> <<"0">> [] n = 1 -> <<"1">> [] n = 2 -> <<"2">>
                [] n = 3 -> <<"3">> [] n = 4 -> <<"4">> [] n = 5 -> <<"5">>
                [] n = 6 -> <<"6">> [] n = 7 -> <<"7">> [] n = 8 -> <<"8">>
                [] n = 9 -> <<"9">>
Ids(row) == [i \in DOMAIN row |-> row[i].custom_id]
Button(row, id) == row[CHOOSE i \in DOMAIN row : row[i].custom_id = id]

\* C1: a constructed Paginator with N >= 1 pages has 1 <= page <= N in every
\* state, whatever interactions, timeouts and restarts have happened.
C1_PageInRange ==
    (Constructed /\ N >= 1) => (1 <= page /\ page <= N)
\* the right button was accepted while the last page was shown
C1_Witness ==
    /\ pc = "edit" /\ event # <<>> /\ event[1].custom_id = "_right_click"
    /\ N >= 2 /\ shown = N /\ page = N

\* C2: every interaction on the active message from a permitted actor is
\* accepted and moves the page as the reference says: first -> 1,
\* prev -> max(p - 1, 1), next -> min(p + 1, N), last -> N.
C2_ReferenceUpdate ==
    [][(Delivered /\ OnMessage(event'[1]) /\ Authorized(event'[1])) =>
         LET id == event'[1].custom_id IN
         /\ pc' = "edit"
         /\ id = "_extend_left_click" => page' = 1
         /\ id = "_left_click" => page' = Max(page - 1, 1)
         /\ id = "_right_click" => page' = Min(page + 1, N)
         /\ id = "_extend_right_click" => page' = N]_vars
\* the left button was accepted while page 1 of several was shown
C2_Witness ==
    /\ pc = "edit" /\ event # <<>> /\ event[1].custom_id = "_left_click"
    /\ N >= 2 /\ shown = 1 /\ page = 1

\* C3: every render (the send and each completed edit) is built for the
\* current page, with prev and first disabled iff that page is 1 and next
\* and last disabled iff it is N.
C3_DisabledFlags ==
    [][Renders =>
         LET row == rendered'[1].components IN
         /\ shown' = page'
         /\ \A i \in DOMAIN row :
              /\ row[i].custom_id \in {"_left_click", "_extend_left_click"}
                   => (row[i].disabled <=> page' = 1)
              /\ row[i].custom_id \in {"_right_click", "_extend_right_click"}
                   => (row[i].disabled <=> page' = N)]_vars
\* an edit has rendered the last of several pages with extended navigation
C3_Witness ==
    /\ pc = "wait" /\ sent >= 1 /\ use_extend /\ N >= 2 /\ shown = N
    /\ Button(rendered[1].components, "_extend_right_click").disabled
    /\ ~Button(rendered[1].components, "_left_click").disabled

\* C4: every rendered row is [prev, label, next], or with extended
\* navigation [first, prev, label, next, last]; the label is disabled and
\* reads "Page {page} / {N}".
C4_RowLayout ==
    [][Renders =>
         LET row == rendered'[1].components IN
         /\ Ids(row) = IF use_extend
                       THEN <<"_extend_left_click", "_left_click", "_show_page",
                              "_right_click", "_extend_right_click">>
                       ELSE <<"_left_click", "_show_page", "_right_click">>
         /\ Button(row, "_show_page").disabled
         /\ Button(row, "_show_page").label =
              <<"P", "a", "g", "e", " ">> \o Numeral(page')
                 \o <<" ", "/", " ">> \o Numeral(N)]_vars
\* page 2 of 3 is shown with the five-button row
C4_Witness ==
    /\ pc = "wait" /\ use_extend /\ N = 3 /\ shown = 2
    /\ Len(rendered[1].components) = 5

C6_OtherMessageIgnored ==
    [][(Delivered /\ ~OnMessage(event'[1])) =>
         /\ page' = page /\ rendered' = rendered /\ shown' = shown
         /\ sent' = sent /\ deleted' = deleted
         /\ tasks' = tasks /\ waited' = waited
         /\ pc' = "wait"]_vars
\* a navigation press by a non-permitted actor on another message was seen
C6_Witness ==
    /\ pc = "wait" /\ event # <<>> /\ only # None
    /\ event[1].origin_message_id # message /\ event[1].author_id # only
    /\ event[1].custom_id = "_right_click" /\ N >= 2 /\ page = 1
    /\ tasks = <<>>

\* C7: the wait for an interaction is bounded by self.timeout: start() is
\* never still waiting more than timeout seconds after it began to wait.
C7_WaitBounded ==
    pc = "wait" => waited <= timeout

\* C8 (as claimed): after a timeout with delete_after_timeout false,
\* start() has returned and the message is not deleted.
C8_ReturnsWithoutDelete ==
    (error = "TimeoutError" /\ ~delete_after_timeout) =>
        (pc = "done" /\ message \notin Range(deleted))
\* C8 (amended): a timeout with delete_after_timeout false deletes nothing
\* and leaves the message as last rendered, and start() does not return:
\* it waits for the next interaction.
C8_KeepsWaiting ==
    [][(error' = "TimeoutError" /\ ~delete_after_timeout) =>
         /\ pc' = "wait" /\ waited' = 0
         /\ deleted' = deleted /\ message' = message /\ sent' = sent
         /\ rendered' = rendered /\ shown' = shown /\ page' = page]_vars
\* a timeout was caught after the view had moved to another page
C8_Witness ==
    /\ error = "TimeoutError" /\ ~delete_after_timeout
    /\ pc = "wait" /\ shown >= 2 /\ deleted = <<>>

\* C9: a timeout with delete_after_timeout true deletes the message this
\* start() sent, once, and start() returns: nothing is awaited, edited or
\* deleted until start() is called again.
C9_DeletedOnce ==
    [][/\ (error' = "TimeoutError" /\ delete_after_timeout) =>
            /\ message \notin Range(deleted)
            /\ deleted' = Append(deleted, message)
            /\ message = sent /\ message' = message
            /\ pc' = "done"
       /\ pc = "done" =>
            /\ deleted' = deleted
            /\ \/ pc' = "done" /\ rendered' = rendered /\ message' = message
               \/ sent' = sent + 1]_vars
\* two runs of start() have each ended by deleting their own message
C9_Witness ==
    /\ error = "TimeoutError" /\ delete_after_timeout /\ pc = "done"
    /\ deleted = <<1, 2>> /\ message = 2

\* C10: the timeout window restarts when start() waits again after an
\* accepted interaction, and a rejected interaction neither restarts it nor
\* is seen later than timeout seconds after the wait began.
C10_WindowNotPostponed ==
    [][/\ (pc = "edit" /\ pc' = "wait") => waited' = 0
       /\ (Delivered /\ pc' = "wait") =>
            (waited' = waited /\ waited <= timeout)]_vars

(* ---------------------- claims on construction ------------------------ *)
\* what the arguments of the last __init__ call were
Supplied(o) == o # NoList
ValidBot(a) == a.bot
ValidPages(a) ==
    /\ Supplied(a.contents) \/ Supplied(a.embeds)
    /\ (Supplied(a.contents) /\ Supplied(a.embeds))
         => Len(a.contents[1]) = Len(a.embeds[1])
ValidTimeout(a) == a.timeout.int
ValidStyles(a) == a.left_button_style # "URL" /\ a.right_button_style # "URL"
ValidBasic(a) == Supplied(a.basic_buttons) => Len(a.basic_buttons[1]) = 2
ValidExtended(a) == Supplied(a.extended_buttons) => Len(a.extended_buttons[1]) = 2
Raised(e) == pc = "ctor_raised" /\ error = e

\* C11: a basic_buttons list whose length is not 2 (0, 1, 3 or more) makes
\* __init__ raise InvaildArgumentException, all other arguments being valid.
C11_BasicButtonsCount ==
    (/\ args # <<>>
     /\ ValidBot(args[1]) /\ ValidPages(args[1]) /\ ValidTimeout(args[1])
     /\ ValidStyles(args[1]) /\ ValidExtended(args[1])
     /\ Supplied(args[1].basic_buttons) /\ ~ValidBasic(args[1]))
    => Raised("InvaildArgumentException")

\* C12: an extended_buttons list that is supplied with a length other than 2
\* (empty and single-entry lists included) makes __init__ raise
\* InvaildArgumentException, all other arguments being valid.
C12_ExtendedButtonsCount ==
    (/\ args # <<>>
     /\ ValidBot(args[1]) /\ ValidPages(args[1]) /\ ValidTimeout(args[1])
     /\ ValidStyles(args[1]) /\ ValidBasic(args[1])
     /\ Supplied(args[1].extended_buttons) /\ ~ValidExtended(args[1]))
    => Raised("InvaildArgumentException")

\* C13: for a recognised bot, __init__ raises MissingAttributeException when
\* neither contents nor embeds is supplied and InvaildArgumentException when
\* both are supplied with different lengths; with every argument valid it
\* succeeds and self.contents and self.embeds have the same length.
C13_PagesValidation ==
    (args # <<>> /\ ValidBot(args[1])) =>
        LET a == args[1] IN
        /\ (~Supplied(a.contents) /\ ~Supplied(a.embeds))
             => Raised("MissingAttributeException")
        /\ (Supplied(a.contents) /\ Supplied(a.embeds)
              /\ Len(a.contents[1]) # Len(a.embeds[1]))
             => Raised("InvaildArgumentException")
        /\ (ValidPages(a) /\ ValidTimeout(a) /\ ValidStyles(a)
              /\ ValidBasic(a) /\ ValidExtended(a))
             => (pc = "constructed" /\ Len(contents) = Len(embeds))

\* C20: every constructed Paginator has at least one page.
C20_AtLeastOnePage ==
    Constructed => N >= 1

(* ------------------- claims on the interaction loop ------------------- *)
InLoop == pc \in {"wait", "edit"}
Permitted(ctx) == OnMessage(ctx) /\ Authorized(ctx)

\* C14 (as claimed): no interaction on the active message from a permitted
\* actor is dispatched without the loop considering it, also while the loop
\* is re-rendering.
C14_NeverDropped ==
    unheard # <<>> => ~Permitted(unheard[1])
\* C14 (amended): interactions delivered while start() waits are taken one
\* per cycle, whatever page the message showed when they were issued; one
\* delivered while the loop re-renders is not kept: it changes nothing and
\* no later cycle sees it.
C14_OnePerCycle ==
    [][/\ (Delivered /\ Permitted(event'[1])) => pc' = "edit"
       /\ pc = "edit" => event' = <<>>
       /\ unheard' # <<>> =>
            /\ pc = "edit" /\ pc' = "edit"
            /\ page' = page /\ rendered' = rendered /\ shown' = shown
            /\ message' = message /\ sent' = sent /\ deleted' = deleted
            /\ tasks' = tasks /\ waited' = waited]_vars
\* a permitted actor has pressed next while the previous press is rendered
C14_Witness ==
    /\ pc = "edit" /\ unheard # <<>> /\ Permitted(unheard[1])
    /\ unheard[1].custom_id = "_right_click"
    /\ N = 3 /\ shown = 1 /\ page = 2

\* C15: no interaction ends the loop: start() leaves it only on a timeout,
\* and after an accepted interaction has been rendered it waits again.
C15_OnlyTimeoutEnds ==
    [][/\ (InLoop /\ pc' \notin {"wait", "edit"}) => error' = "TimeoutError"
       /\ (event' # <<>> \/ unheard' # <<>>) => pc' \in {"wait", "edit"}
       /\ (pc = "edit" /\ pc' # "edit" /\ error' # "TimeoutError")
            => pc' = "wait"]_vars
\* the loop waits again after the jump to the last page was rendered
C15_Witness ==
    /\ pc = "wait" /\ sent = 1 /\ error = None /\ waited = 0
    /\ N = 3 /\ shown = 3 /\ page = 3 /\ use_extend

\* C16: a run of start() sends one new message, before any wait; renders
\* that follow edit it in place and self._message is not reassigned until
\* the run ends.
C16_OneMessagePerRun ==
    [][/\ sent' # sent =>
            /\ pc \in {"constructed", "done"} /\ pc' = "wait"
            /\ sent' = sent + 1 /\ message' = sent'
       /\ InLoop => (sent' = sent /\ message' = message)
       /\ (pc = "edit" /\ pc' = "wait" /\ error' = None) =>
            (rendered'[1] = Payload(page) /\ message' = message)]_vars
\* the second run's message has been edited to show another page
C16_Witness ==
    /\ pc = "wait" /\ sent = 2 /\ message = 2 /\ error = None
    /\ event = <<>> /\ shown = 2 /\ page = 2 /\ waited = 0

\* C17: on every invocation of start(), a second one included, self.page is
\* 1 at entry and the message sent shows page 1.
C17_FreshPageOnStart ==
    [][sent' # sent => (page = 1 /\ shown' = 1)]_vars

\* C18: self.page is written only by the loop, on receiving a permitted
\* interaction from its wait; the notice task writes neither self.page nor
\* self._message and does not move the loop.
C18_SingleWriter ==
    [][/\ (pc # "new" /\ page' # page) =>
            /\ pc = "wait" /\ pc' = "edit"
            /\ event' # <<>> /\ Permitted(event'[1])
       /\ Len(tasks') < Len(tasks) =>
            /\ page' = page /\ message' = message /\ pc' = pc
            /\ rendered' = rendered /\ shown' = shown]_vars
\* the notice task has run between the page update and the edit
C18_Witness ==
    /\ pc = "edit" /\ event = <<>> /\ unheard = <<>> /\ tasks = <<>>
    /\ only # None /\ page = 2 /\ shown = 1

\* C19: a permitted interaction on the active message whose custom id is
\* the label's, or any id other than the four navigation ids, leaves
\* self.page unchanged.
C19_LabelNotMatched ==
    [][(/\ Delivered /\ Permitted(event'[1])
        /\ event'[1].custom_id \notin {"_extend_left_click", "_left_click",
                                       "_right_click", "_extend_right_click"})
       => page' = page]_vars
\* the label's id was accepted on page 2 and the page is still 2
C19_Witness ==
    /\ pc = "edit" /\ event # <<>> /\ event[1].custom_id = "_show_page"
    /\ shown = 2 /\ page = 2

====
